---------------------------- MODULE Spec2Model ----------------------------
(***************************************************************************)
(* Model of convert_videos.py: the derivative generation pipeline.         *)
(*                                                                         *)
(* main() reads the catalog and maps process_single_file over its rows on  *)
(* a ThreadPoolExecutor.  Each worker, for one row, checks the source,     *)
(* creates the output folders, and for every enabled derivative (Master,   *)
(* Proxy) checks the output path and calls run_ffmpeg_safe, which runs the *)
(* external tool, verifies the outcome, removes bad output and records     *)
(* failures through log_error under print_lock.                            *)
(*                                                                         *)
(* The external tool is a black box: it is started with -n (never          *)
(* overwrite), may not start at all, and ends with some exit status and    *)
(* some state of the output file.  Files follow POSIX semantics: a path    *)
(* can be unlinked while a process still writes the file.                  *)
(***************************************************************************)
EXTENDS Naturals, Integers, Sequences, FiniteSets, TLC

\* Largest number of derivative tasks (rows times enabled derivatives) of a
\* catalog.
MaxTasks == 4

\* max_workers of the pool.  The script ships with 4 and documents 2 and 8
\* as alternatives (convert_videos.py:13-15); the model runs with a small pool.
MAX_PARALLEL_TASKS == 2

VARIABLES
    mode,        \* PROCESSING_MODE: 1 masters only, 2 proxies only, 3 both
    catalog,     \* rows of the catalog file, in file order
    sources,     \* input paths that exist on disk
    dirs,        \* output folders that exist on disk
    fs,          \* output path -> [st, by]: the file at that path
    run,         \* which execution of main() this is: "first" or "second"
    mainpc,      \* position of main(): "map", "done"
    submitted,   \* rows main() has submitted to the executor so far
    queue,       \* work queue of the executor (row indexes)
    threads,     \* worker threads the executor has started
    pc,          \* worker -> position in process_single_file / run_ffmpeg_safe
    cur,         \* worker -> row it is processing (0: none)
    task,        \* worker -> derivative it is working on
    rc,          \* worker -> result.returncode: "none", "zero" or "nonzero"
    obs,         \* worker -> what CHECK 2 saw at the output path
    exc,         \* worker -> an exception was raised in its run_ffmpeg_safe call
    msg,         \* worker -> message it is writing or about to write
    success,     \* worker -> value returned by its last run_ffmpeg_safe
    print_lock,  \* holder of print_lock (0: free)
    results,     \* row -> result of its future
    taskState,   \* worker -> derivative -> progress of it for the current row
    calls,       \* row -> derivative -> run_ffmpeg_safe calls in this execution
    firstCalls,  \* calls of the first execution, kept when the second begins
    paths,       \* row -> derivative -> output path checked in this execution
    firstPaths,  \* paths of the first execution, kept when the second begins
    logged,      \* worker -> records its current run_ffmpeg_safe call appended
                 \*           to conversion_errors.log
    printed,     \* worker -> messages process_single_file printed for its row
    dispatched,  \* rows in the order the workers took them from the queue
    \* process_single_file building the commands of one row
    planpc,        \* position in the command-building part
    row_in,        \* the row: its 'Video Codec' and 'Field Order' cells
    codec,         \* str(row['Video Codec']).lower()
    field_order,   \* str(row['Field Order']).lower()
    cmd_archive,   \* the Master command (<<>>: not built)
    is_interlaced, \* the interlacing flag of the Proxy section
    vf_filters,    \* the filter chain of the Proxy command
    cmd_sharing,   \* the Proxy command (<<>>: not built)
    \* add_copyright_stamp.py: stamp_file over the files found
    spc,         \* file -> position of its stamp_file call
    tag,         \* file -> copyright tag the file carries
    temp,        \* file -> the file at temp_<filename>
    original,    \* file -> "untouched", or "replaced" by os.replace
    sres,        \* file -> how the stamping invocation ended
    scalls,      \* file -> stamping invocations issued
    existing_copyright  \* file -> what needs_stamping read from ffprobe

\* State of the command-building part of process_single_file.
planVars == <<planpc, row_in, codec, field_order, cmd_archive, is_interlaced,
              vf_filters, cmd_sharing>>

\* State of add_copyright_stamp.py.
stampVars == <<spc, tag, temp, original, sres, scalls, existing_copyright>>

\* State the pipeline steps leave alone.
otherVars == <<planVars, stampVars>>

\* State of the pipeline of convert_videos.py.
pipeVars == <<mode, catalog, sources, dirs, fs, run, mainpc, submitted, queue,
              threads, pc, cur, task, rc, obs, exc, msg, success, print_lock,
              results, taskState, calls, firstCalls, paths, firstPaths, logged,
              printed, dispatched>>

vars == <<pipeVars, planVars, stampVars>>


Kinds == {"Master", "Proxy"}

Modes == {1, 2, 3}

MasterEnabled(m) == m = 1 \/ m = 3

ProxyEnabled(m) == m = 2 \/ m = 3

-----------------------------------------------------------------------------
(* Catalog rows and paths *)

\* The (Directory Path, Filename) pairs of the source tree, in the order the
\* catalog lists them.  A file name is kept as its root and its extension; the
\* first and the last share their root.
FileList ==
    << [dir |-> "d", base |-> "a", ext |-> ".mov"],
       [dir |-> "d", base |-> "b", ext |-> ".mov"],
       [dir |-> "d", base |-> "a", ext |-> ".avi"] >>

Files == { FileList[i] : i \in DOMAIN FileList }

NumEntries == Len(FileList)

Entries == 1..NumEntries

\* Threads the executor could ever be asked to start: one per submitted row.
Workers == 1..NumEntries

\* os.path.splitext(filename): (root, extension).
splitext(row) == <<row.base, row.ext>>

\* os.path.join(directory, filename)
input_path(row) == <<row.dir, row.base, row.ext>>

\* os.path.join(directory, "Masters") / os.path.join(directory, "Proxies")
out_dir(row, k) == <<row.dir, IF k = "Master" THEN "Masters" ELSE "Proxies">>

\* archive_out = <dir>/Masters/<base>_Master.mov
\* sharing_out = <dir>/Proxies/<base>_Share.mp4
out_path(row, k) ==
    LET base_name == splitext(row)[1]
    IN  IF k = "Master"
        THEN <<out_dir(row, k), base_name, "_Master", ".mov">>
        ELSE <<out_dir(row, k), base_name, "_Share", ".mp4">>

OutPaths == { out_path(r, k) : r \in Files, k \in Kinds }

NoFile == [st |-> "absent", by |-> <<>>]

\* os.path.exists(path) for an output path
exists(p) == fs[p].st # "absent"

\* os.path.getsize(path) == 0
size_is_zero(p) == fs[p].st = "empty"

\* Pre-existing output of an earlier execution.
OldFile == [st |-> "complete", by |-> <<"earlier">>]

\* The last argument of the command the worker built: the path the tool
\* writes (cmd_archive ends with archive_out, cmd_sharing with sharing_out).
command_output(w) == out_path(catalog[cur[w]], task[w])

\* Variant: archive_out passed as output_file by the Proxy call as well.
output_file_archive(w) == out_path(catalog[cur[w]], "Master")

\* The output_file argument of the worker's run_ffmpeg_safe call (lines 142,
\* 177): the path that is verified and cleaned up.
output_file(w) == out_path(catalog[cur[w]], task[w])

\* The identity of the worker's invocation.
Inv(w) == <<run, cur[w], task[w]>>


-----------------------------------------------------------------------------
(* Initial state: main() has read the catalog and is about to map *)

\* Catalogs: one row per file of a non-empty part of the source tree.
Catalogs ==
    LET picks == { f \in UNION { [1..n -> Entries] : n \in Entries } :
                     \A i \in 1..(Len(f) - 1) : f[i] < f[i + 1] }
    IN  { [i \in DOMAIN f |-> FileList[f[i]]] : f \in picks }

\* Derivatives a mode enables.
enabled_kinds(m) ==
    { k \in Kinds : IF k = "Master" THEN MasterEnabled(m) ELSE ProxyEnabled(m) }

NoCalls == [e \in Entries |-> [k \in Kinds |-> 0]]

NoPaths == [e \in Entries |-> [k \in Kinds |-> <<>>]]

NoTasks == [k \in Kinds |-> "none"]

\* The command-building part is not being followed.
PlanIdle ==
    /\ planpc = "off"
    /\ row_in = [codec |-> <<>>, field |-> <<>>]
    /\ codec = <<>>
    /\ field_order = <<>>
    /\ cmd_archive = <<>>
    /\ is_interlaced = FALSE
    /\ vf_filters = <<>>
    /\ cmd_sharing = <<>>

\* Files add_copyright_stamp.py finds under the Masters and Proxies folders.
StampFiles == {"a_Master.mov", "a_Share.mp4"}

\* add_copyright_stamp.py is not running.
StampIdle ==
    /\ spc = [f \in StampFiles |-> "off"]
    /\ tag = [f \in StampFiles |-> "none"]
    /\ temp = [f \in StampFiles |-> "absent"]
    /\ original = [f \in StampFiles |-> "untouched"]
    /\ sres = [f \in StampFiles |-> "none"]
    /\ scalls = [f \in StampFiles |-> 0]
    /\ existing_copyright = [f \in StampFiles |-> <<"unread">>]

\* main() of convert_videos.py is about to map; nothing has run yet.
PipelineStart ==
    /\ dirs = {}
    /\ run = "first"
    /\ mainpc = "map"
    /\ submitted = 0
    /\ queue = <<>>
    /\ threads = 0
    /\ pc = [w \in Workers |-> "idle"]
    /\ cur = [w \in Workers |-> 0]
    /\ task = [w \in Workers |-> "-"]
    /\ rc = [w \in Workers |-> "none"]
    /\ obs = [w \in Workers |-> "none"]
    /\ exc = [w \in Workers |-> FALSE]
    /\ msg = [w \in Workers |-> "-"]
    /\ success = [w \in Workers |-> FALSE]
    /\ print_lock = 0
    /\ results = [e \in Entries |-> "pending"]
    /\ taskState = [w \in Workers |-> NoTasks]
    /\ calls = NoCalls
    /\ firstCalls = NoCalls
    /\ paths = NoPaths
    /\ firstPaths = NoPaths
    /\ logged = [w \in Workers |-> <<>>]
    /\ printed = [w \in Workers |-> <<>>]
    /\ dispatched = <<>>

\* convert_videos.py is not running: one row, no source, nothing on disk.
PipelineIdle ==
    /\ catalog = <<FileList[1]>>
    /\ sources = {}
    /\ fs = [p \in OutPaths |-> NoFile]
    /\ PipelineStart

Init ==
    /\ mode \in Modes
    /\ catalog \in Catalogs
    /\ Len(catalog) * Cardinality(enabled_kinds(mode)) <= MaxTasks
    /\ sources \in SUBSET { input_path(catalog[e]) : e \in DOMAIN catalog }
    /\ fs \in [OutPaths -> {NoFile, OldFile}]
    /\ \A p \in OutPaths :
         fs[p] = OldFile =>
           \E e \in DOMAIN catalog, k \in enabled_kinds(mode) :
              p = out_path(catalog[e], k)
    /\ PipelineStart
    /\ PlanIdle
    /\ StampIdle

-----------------------------------------------------------------------------
(* The executor: ThreadPoolExecutor(max_workers=MAX_PARALLEL_TASKS).map *)

\* Variant: submit() starts a thread for every row.
may_start_thread_always(n) == TRUE

\* Whether submit() starts another worker thread.
may_start_thread(n) == n < MAX_PARALLEL_TASKS

\* executor.map submits the rows in catalog order; each submit puts the row
\* on the work queue and starts a thread while fewer than max_workers run.
Submit ==
    /\ mainpc = "map"
    /\ submitted < Len(catalog)
    /\ submitted' = submitted + 1
    /\ queue' = Append(queue, submitted + 1)
    /\ threads' = IF may_start_thread(threads) THEN threads + 1 ELSE threads
    /\ UNCHANGED <<otherVars, mode, catalog, sources, dirs, fs, run, mainpc, pc, cur, task,
                   rc, obs, exc, msg, success, print_lock, results, taskState,
                   calls, firstCalls, paths, firstPaths, logged, printed,
                   dispatched>>

\* The position of the queue a free worker takes its next row from.
next_in_queue(q) == 1

RemoveAt(q, i) == [j \in 1..(Len(q) - 1) |-> IF j < i THEN q[j] ELSE q[j + 1]]

\* A free worker thread takes the next row and calls process_single_file.
\* Free threads are interchangeable, so the lowest-numbered one takes it.
Dequeue(w) ==
    /\ w <= threads
    /\ pc[w] = "idle"
    /\ \A v \in 1..(w - 1) : pc[v] # "idle"
    /\ queue # <<>>
    /\ LET i == next_in_queue(queue)
       IN  /\ cur' = [cur EXCEPT ![w] = queue[i]]
           /\ dispatched' = Append(dispatched, queue[i])
           /\ queue' = RemoveAt(queue, i)
    /\ pc' = [pc EXCEPT ![w] = "start"]
    /\ UNCHANGED <<otherVars, mode, catalog, sources, dirs, fs, run, mainpc, submitted,
                   threads, task, rc, obs, exc, msg, success, print_lock,
                   results, taskState, calls, firstCalls, paths, firstPaths,
                   logged, printed>>

\* Leaving the with-block joins the workers; main() then returns.
MainExit ==
    /\ mainpc = "map"
    /\ submitted = Len(catalog)
    /\ queue = <<>>
    /\ \A w \in Workers : pc[w] = "idle"
    /\ mainpc' = "done"
    /\ UNCHANGED <<otherVars, mode, catalog, sources, dirs, fs, run, submitted, queue,
                   threads, pc, cur, task, rc, obs, exc, msg, success,
                   print_lock, results, taskState, calls, firstCalls, paths,
                   firstPaths, logged, printed, dispatched>>

\* The script is run again over the same catalog, with the same mode, on the
\* disk the first execution left.  The per-execution records start afresh.
Rerun ==
    /\ mainpc = "done"
    /\ run = "first"
    /\ run' = "second"
    /\ mainpc' = "map"
    /\ submitted' = 0
    /\ threads' = 0
    /\ firstCalls' = calls
    /\ calls' = NoCalls
    /\ firstPaths' = paths
    /\ paths' = NoPaths
    /\ results' = [e \in Entries |-> "pending"]
    /\ dispatched' = <<>>
    /\ UNCHANGED <<otherVars, mode, catalog, sources, dirs, fs, queue, pc, cur, task, rc,
                   obs, exc, msg, success, print_lock, taskState, logged,
                   printed>>

-----------------------------------------------------------------------------
(* Control flow of one worker *)

\* Where a worker goes next: a position, the message it carries there, and
\* the value run_ffmpeg_safe returns on the way ("none": no return).
Goto(p) == [pc |-> p, msg |-> "-", ret |-> "none"]

\* print(message) outside log_error; being at "print" is writing the console.
Console(m) == [pc |-> "print", msg |-> m, ret |-> "none"]

\* log_error(message): the worker is about to take print_lock.
Log(m) == [pc |-> "log", msg |-> m, ret |-> "none"]

\* Variant: the Proxy section is entered in every mode.
after_master_always(m) == Goto("p_check")

\* After the Master section (lines 118-147): the Proxy section if enabled.
after_master(m) == IF ProxyEnabled(m) THEN Goto("p_check") ELSE Goto("end")

\* Variant: process_single_file returns at once when a derivative failed.
on_return_abort(k, ok) ==
    LET to == IF ~ok THEN Goto("end")
              ELSE IF k = "Master" THEN Console("DONE_M_144")
                                   ELSE Console("DONE_P_179")
    IN  [to EXCEPT !.ret = IF ok THEN "ok" ELSE "failed"]

\* return of run_ffmpeg_safe into process_single_file (lines 142-145, 177-179).
\* Master: "[DONE] Master" is printed under `if success` and once more after it.
on_return(k, ok) ==
    LET to == IF k = "Master"
              THEN IF ok THEN Console("DONE_M_144") ELSE Console("DONE_M_145")
              ELSE IF ok THEN Console("DONE_P_179") ELSE Goto("end")
    IN  [to EXCEPT !.ret = IF ok THEN "ok" ELSE "failed"]

Step(w, nxt) ==
    /\ pc' = [pc EXCEPT ![w] = nxt.pc]
    /\ msg' = [msg EXCEPT ![w] = nxt.msg]
    /\ IF nxt.ret = "none"
       THEN UNCHANGED <<success, taskState>>
       ELSE /\ success' = [success EXCEPT ![w] = (nxt.ret = "ok")]
            /\ taskState' = [taskState EXCEPT ![w][task[w]] = nxt.ret]

-----------------------------------------------------------------------------
(* process_single_file(row) *)

\* Variant: the Proxy section placed before the Master section.
first_section_proxy_first(m) == IF ProxyEnabled(m) THEN "p_check" ELSE "m_check"

\* The first section of process_single_file that the mode enables: the
\* Master section (line 118) comes before the Proxy section (line 149).
first_section(m) == IF MasterEnabled(m) THEN "m_check" ELSE "p_check"

\* Lines 87-100: the source check and the output folders.
Start(w) ==
    /\ pc[w] = "start"
    /\ LET row == catalog[cur[w]]
       IN  IF input_path(row) \notin sources
           THEN /\ results' = [results EXCEPT ![cur[w]] = "SKIP"]
                /\ pc' = [pc EXCEPT ![w] = "idle"]
                /\ cur' = [cur EXCEPT ![w] = 0]
                /\ UNCHANGED dirs
           ELSE /\ dirs' = dirs \cup { out_dir(row, k) : k \in enabled_kinds(mode) }
                /\ pc' = [pc EXCEPT ![w] = first_section(mode)]
                /\ UNCHANGED <<results, cur>>
    /\ UNCHANGED <<otherVars, mode, catalog, sources, fs, run, mainpc, submitted, queue,
                   threads, task, rc, obs, exc, msg, success, print_lock,
                   taskState, calls, firstCalls, paths, firstPaths, logged,
                   printed, dispatched>>

\* Variant: the guard dropped, every enabled task is run.
should_invoke_always(p) == TRUE

\* The idempotency guard: `if not os.path.exists(out)` (lines 122, 153).
should_invoke(p) == ~exists(p)

\* Lines 120-122/147 and 151-153/181: check the output path; call
\* run_ffmpeg_safe when it is missing, print [SKIP] otherwise.
OutputCheck(w, k) ==
    LET e == cur[w]
        p == out_path(catalog[e], k)
    IN  /\ task' = [task EXCEPT ![w] = k]
        /\ paths' = [paths EXCEPT ![e][k] = p]
        /\ logged' = [logged EXCEPT ![w] = <<>>]
        /\ rc' = [rc EXCEPT ![w] = "none"]
        /\ obs' = [obs EXCEPT ![w] = "none"]
        /\ exc' = [exc EXCEPT ![w] = FALSE]
        /\ IF should_invoke(p)
           THEN /\ calls' = [calls EXCEPT ![e][k] = @ + 1]
                /\ taskState' = [taskState EXCEPT ![w][k] = "running"]
                /\ pc' = [pc EXCEPT ![w] = "spawn"]
                /\ UNCHANGED msg
           ELSE /\ taskState' = [taskState EXCEPT ![w][k] = "skip"]
                /\ pc' = [pc EXCEPT ![w] = "print"]
                /\ msg' = [msg EXCEPT ![w] =
                              IF k = "Master" THEN "SKIP_M_147" ELSE "SKIP_P_181"]
                /\ UNCHANGED calls
        /\ UNCHANGED <<otherVars, mode, catalog, sources, dirs, fs, run, mainpc, submitted,
                       queue, threads, cur, success, print_lock, results,
                       firstCalls, firstPaths, printed, dispatched>>

MasterCheck(w) == pc[w] = "m_check" /\ OutputCheck(w, "Master")

ProxyCheck(w) == pc[w] = "p_check" /\ OutputCheck(w, "Proxy")

\* The text a print statement writes.
text(m) ==
    CASE m \in {"DONE_M_144", "DONE_M_145"} -> "[DONE] Master"
      [] m = "DONE_P_179" -> "[DONE] Proxy"
      [] m = "SKIP_M_147" -> "[SKIP] Master exists"
      [] m = "SKIP_P_181" -> "[SKIP] Proxy exists"
      [] OTHER -> m

\* What follows each print statement of process_single_file.
after_print(m, md) ==
    CASE m = "DONE_M_144" -> Console("DONE_M_145")
      [] m \in {"DONE_M_145", "SKIP_M_147"} -> after_master(md)
      [] OTHER -> Goto("end")

\* A print(...) of process_single_file finishes writing (no lock is taken).
PrintEnd(w) ==
    /\ pc[w] = "print"
    /\ printed' = [printed EXCEPT ![w] = Append(@, text(msg[w]))]
    /\ Step(w, after_print(msg[w], mode))
    /\ UNCHANGED <<otherVars, mode, catalog, sources, dirs, fs, run, mainpc, submitted,
                   queue, threads, cur, task, rc, obs, exc, print_lock, results,
                   calls, firstCalls, paths, firstPaths, logged, dispatched>>

\* Line 183: return "COMPLETED".  The executor stores the value, or the
\* exception that left process_single_file, in the row's future (line 201);
\* the worker is free again.
Complete(w) ==
    /\ pc[w] \in {"end", "raised"}
    /\ results' = [results EXCEPT ![cur[w]] =
                      IF pc[w] = "end" THEN "COMPLETED" ELSE "EXCEPTION"]
    /\ pc' = [pc EXCEPT ![w] = "idle"]
    /\ cur' = [cur EXCEPT ![w] = 0]
    /\ task' = [task EXCEPT ![w] = "-"]
    /\ rc' = [rc EXCEPT ![w] = "none"]
    /\ obs' = [obs EXCEPT ![w] = "none"]
    /\ exc' = [exc EXCEPT ![w] = FALSE]
    /\ success' = [success EXCEPT ![w] = FALSE]
    /\ taskState' = [taskState EXCEPT ![w] = NoTasks]
    /\ logged' = [logged EXCEPT ![w] = <<>>]
    /\ printed' = [printed EXCEPT ![w] = <<>>]
    /\ UNCHANGED <<otherVars, mode, catalog, sources, dirs, fs, run, mainpc, submitted,
                   queue, threads, msg, print_lock, calls, firstCalls, paths,
                   firstPaths, dispatched>>

-----------------------------------------------------------------------------
(* run_ffmpeg_safe(command, output_file) *)

InvokerFrame == <<otherVars, mode, catalog, sources, dirs, run, mainpc, submitted, queue,
                  threads, cur, task, print_lock, results, calls, firstCalls,
                  paths, firstPaths, logged, printed, dispatched>>

\* Variant: the except clause does not match, the exception leaves
\* run_ffmpeg_safe and process_single_file.
on_exception_uncaught(k) == Goto("raised")

\* Lines 77-79: `except Exception as e` records the exception with log_error
\* and returns False.
on_exception(k) == Log("EXCEPTION")

\* Lines 44-49: subprocess.run starts the tool.  The tool cannot be started
\* (subprocess.run raises), or it ends with an error before it opens its
\* output (with -n: always so when the output exists), or it creates the
\* output file and runs.
Spawn(w) ==
    /\ pc[w] = "spawn"
    /\ \/ /\ Step(w, on_exception(task[w]))
          /\ exc' = [exc EXCEPT ![w] = TRUE]
          /\ UNCHANGED <<fs, rc>>
       \/ /\ rc' = [rc EXCEPT ![w] = "nonzero"]
          /\ Step(w, Log("CRASH"))
          /\ UNCHANGED <<fs, exc>>
       \/ /\ ~exists(command_output(w))
          /\ fs' = [fs EXCEPT ![command_output(w)] = [st |-> "empty", by |-> Inv(w)]]
          /\ Step(w, Goto("ff_running"))
          /\ UNCHANGED <<rc, exc>>
    /\ UNCHANGED obs
    /\ UNCHANGED InvokerFrame

\* Whether the file at the worker's output path is the one its own running
\* invocation created (it is not once another worker unlinked the path).
OwnFile(w) ==
    fs[command_output(w)].st # "absent" /\ fs[command_output(w)].by = Inv(w)

\* The tool ends.  Exit status 0 with the file complete, or left at zero
\* bytes; a non-zero status leaves the file as far as it was written.  Once
\* the path was unlinked the data no longer reaches it.  Lines 51-52, 64:
\* the return code selects CHECK 1 or CHECK 2.
FfmpegExit(w) ==
    /\ pc[w] = "ff_running"
    /\ \E code \in {"zero", "nonzero"} :
         /\ rc' = [rc EXCEPT ![w] = code]
         /\ \/ /\ OwnFile(w)
               /\ \E st \in IF code = "zero" THEN {"complete", "empty"}
                                         ELSE {"partial", "empty"} :
                     fs' = [fs EXCEPT ![command_output(w)].st = st]
            \/ /\ ~OwnFile(w)
               /\ UNCHANGED fs
         /\ IF code # "zero"
            THEN Step(w, Log("CRASH"))
            ELSE Step(w, Goto("check2_exists"))
    /\ UNCHANGED <<obs, exc>>
    /\ UNCHANGED InvokerFrame

\* Line 59: if os.path.exists(output_file)
CleanupExists(w) ==
    /\ pc[w] = "cleanup_exists"
    /\ IF exists(output_file(w))
       THEN Step(w, Goto("cleanup_remove"))
       ELSE Step(w, on_return(task[w], FALSE))
    /\ UNCHANGED <<fs, rc, obs, exc>>
    /\ UNCHANGED InvokerFrame

\* Variant: the message is logged but os.remove is not called.
remove_then_keep(w, m) ==
    /\ UNCHANGED <<fs, exc>>
    /\ Step(w, Log(m))

\* os.remove(output_file), then the message that follows it; os.remove raises
\* when the path is gone, and the except clause of line 77 takes over.
remove_then(w, m) ==
    IF exists(output_file(w))
    THEN /\ fs' = [fs EXCEPT ![output_file(w)] = NoFile]
         /\ Step(w, Log(m))
         /\ UNCHANGED exc
    ELSE /\ UNCHANGED fs
         /\ Step(w, on_exception(task[w]))
         /\ exc' = [exc EXCEPT ![w] = TRUE]

\* Lines 60-61
CleanupRemove(w) ==
    /\ pc[w] = "cleanup_remove"
    /\ remove_then(w, "DELETED")
    /\ UNCHANGED <<rc, obs>>
    /\ UNCHANGED InvokerFrame

\* Lines 65, 71-73: if os.path.exists(output_file) ... else [MISSING]
Check2Exists(w) ==
    /\ pc[w] = "check2_exists"
    /\ IF exists(output_file(w))
       THEN /\ Step(w, Goto("check2_size"))
            /\ UNCHANGED obs
       ELSE /\ Step(w, Log("MISSING"))
            /\ obs' = [obs EXCEPT ![w] = "missing"]
    /\ UNCHANGED <<fs, rc, exc>>
    /\ UNCHANGED InvokerFrame

\* Lines 66-67, 75: os.path.getsize(output_file) == 0; getsize raises when the
\* path is gone.
Check2Size(w) ==
    /\ pc[w] = "check2_size"
    /\ obs' = [obs EXCEPT ![w] = CASE fs[output_file(w)].st = "absent" -> "vanished"
                                     [] fs[output_file(w)].st = "empty" -> "empty"
                                     [] OTHER -> "nonempty"]
    /\ IF ~exists(output_file(w))
       THEN /\ Step(w, on_exception(task[w]))
            /\ exc' = [exc EXCEPT ![w] = TRUE]
       ELSE /\ IF size_is_zero(output_file(w))
               THEN Step(w, Log("EMPTY"))
               ELSE Step(w, on_return(task[w], TRUE))
            /\ UNCHANGED exc
    /\ UNCHANGED <<fs, rc>>
    /\ UNCHANGED InvokerFrame

\* Lines 68-69
EmptyRemove(w) ==
    /\ pc[w] = "empty_remove"
    /\ remove_then(w, "DELETED_EMPTY")
    /\ UNCHANGED <<rc, obs>>
    /\ UNCHANGED InvokerFrame

-----------------------------------------------------------------------------
(* log_error(message) *)

\* Variant: the zero-byte branch returns without removing the file.
after_log_keep_empty(m, k) ==
    CASE m = "CRASH" -> Log("EXITCODE")
      [] m = "EXITCODE" -> Log("STDERR")
      [] m = "STDERR" -> Goto("cleanup_exists")
      [] OTHER -> on_return(k, FALSE)

\* What follows each log_error call of run_ffmpeg_safe.
after_log(m, k) ==
    CASE m = "CRASH" -> Log("EXITCODE")
      [] m = "EXITCODE" -> Log("STDERR")
      [] m = "STDERR" -> Goto("cleanup_exists")
      [] m = "EMPTY" -> Goto("empty_remove")
      [] OTHER -> on_return(k, FALSE)

\* Whether log_error may start writing: `with print_lock`.
may_write(w) == print_lock = 0

\* Line 32: the lock is taken; the worker writes the console and the file.
LogAcquire(w) ==
    /\ pc[w] = "log"
    /\ may_write(w)
    /\ print_lock' = w
    /\ pc' = [pc EXCEPT ![w] = "log_write"]
    /\ UNCHANGED <<otherVars, mode, catalog, sources, dirs, fs, run, mainpc, submitted,
                   queue, threads, cur, task, rc, obs, exc, msg, success,
                   results, taskState, calls, firstCalls, paths, firstPaths,
                   logged, printed, dispatched>>

\* Lines 33-35: the message is on the console and appended to the log file;
\* the lock is released.
LogRelease(w) ==
    /\ pc[w] = "log_write"
    /\ logged' = [logged EXCEPT ![w] = Append(@, msg[w])]
    /\ print_lock' = 0
    /\ Step(w, after_log(msg[w], task[w]))
    /\ UNCHANGED <<otherVars, mode, catalog, sources, dirs, fs, run, mainpc, submitted,
                   queue, threads, cur, task, rc, obs, exc, results, calls,
                   firstCalls, paths, firstPaths, printed, dispatched>>

-----------------------------------------------------------------------------

Next ==
    \/ Submit
    \/ MainExit
    \/ \E w \in Workers :
         \/ Dequeue(w)
         \/ Start(w)
         \/ MasterCheck(w)
         \/ ProxyCheck(w)
         \/ PrintEnd(w)
         \/ Complete(w)
         \/ Spawn(w)
         \/ FfmpegExit(w)
         \/ CleanupExists(w)
         \/ CleanupRemove(w)
         \/ Check2Exists(w)
         \/ Check2Size(w)
         \/ EmptyRemove(w)
         \/ LogAcquire(w)
         \/ LogRelease(w)

Spec == Init /\ [][Next]_vars

\* The script executed twice in sequence.
NextRerun == Next \/ Rerun

SpecRerun == Init /\ [][NextRerun]_vars

-----------------------------------------------------------------------------
(* Interruption of a run, and the run that follows it *)

\* Workers whose external tool is running on a file of its own.
Writers == { w \in Workers : pc[w] = "ff_running" /\ OwnFile(w) }

\* The script is stopped at some point of its first execution, together with
\* the external tools it started (the terminal's interrupt, a shutdown).  No
\* handler runs: the file a stopped tool was writing stays as far as it was
\* written, and everything the process held in memory is gone.
Interrupt ==
    /\ run = "first"
    /\ mainpc = "map"
    /\ \E left \in [Writers -> {"empty", "partial"}] :
          fs' = [p \in OutPaths |->
                    IF \E w \in Writers : command_output(w) = p
                    THEN [fs[p] EXCEPT !.st =
                            left[CHOOSE w \in Writers : command_output(w) = p]]
                    ELSE fs[p]]
    /\ mainpc' = "killed"
    /\ submitted' = 0
    /\ queue' = <<>>
    /\ threads' = 0
    /\ pc' = [w \in Workers |-> "idle"]
    /\ cur' = [w \in Workers |-> 0]
    /\ task' = [w \in Workers |-> "-"]
    /\ rc' = [w \in Workers |-> "none"]
    /\ obs' = [w \in Workers |-> "none"]
    /\ exc' = [w \in Workers |-> FALSE]
    /\ msg' = [w \in Workers |-> "-"]
    /\ success' = [w \in Workers |-> FALSE]
    /\ print_lock' = 0
    /\ results' = [e \in Entries |-> "pending"]
    /\ taskState' = [w \in Workers |-> NoTasks]
    /\ calls' = NoCalls
    /\ paths' = NoPaths
    /\ logged' = [w \in Workers |-> <<>>]
    /\ printed' = [w \in Workers |-> <<>>]
    /\ dispatched' = <<>>
    /\ UNCHANGED <<otherVars, mode, catalog, sources, dirs, run, firstCalls,
                   firstPaths>>

\* The script is run again over the same catalog after the interruption.
Resume ==
    /\ mainpc = "killed"
    /\ run' = "resumed"
    /\ mainpc' = "map"
    /\ UNCHANGED <<otherVars, mode, catalog, sources, dirs, fs, submitted,
                   queue, threads, pc, cur, task, rc, obs, exc, msg, success,
                   print_lock, results, taskState, calls, firstCalls, paths,
                   firstPaths, logged, printed, dispatched>>

NextInterrupt == Next \/ Interrupt \/ Resume

\* An execution that may be interrupted, followed by a second one.
SpecInterrupt == Init /\ [][NextInterrupt]_vars

-----------------------------------------------------------------------------
(* Exceptions in process_single_file outside run_ffmpeg_safe *)

\* Output folders in the order lines 95-100 create them.
dir_order == <<"Master", "Proxy">>

\* The folders already created when an exception leaves lines 87-106: none
\* (a column of the row is missing at line 87 or 88, the first os.makedirs
\* fails), the first one (the second os.makedirs fails), or all of them (a
\* column is missing at line 105 or 106).  Nothing is created for a row
\* whose source is missing.
created_before_fault(r, m) ==
    IF input_path(r) \notin sources THEN { {} }
    ELSE { { out_dir(r, dir_order[i]) : i \in { j \in 1..n : dir_order[j] \in enabled_kinds(m) } }
             : n \in 0..Len(dir_order) }

\* Lines 87-106 raise (KeyError, OSError).  process_single_file has no
\* handler: the exception leaves it.
StartRaises(w) ==
    /\ pc[w] = "start"
    /\ \E made \in created_before_fault(catalog[cur[w]], mode) :
          dirs' = dirs \cup made
    /\ pc' = [pc EXCEPT ![w] = "raised"]
    /\ UNCHANGED <<otherVars, mode, catalog, sources, fs, run, mainpc, submitted,
                   queue, threads, cur, task, rc, obs, exc, msg, success,
                   print_lock, results, taskState, calls, firstCalls, paths,
                   firstPaths, logged, printed, dispatched>>

NextFault == Next \/ \E w \in Workers : StartRaises(w)

\* An execution in which the steps before the Master section may raise.
SpecFault == Init /\ [][NextFault]_vars

-----------------------------------------------------------------------------
(* process_single_file: building the commands of one row (lines 104-174) *)

\* A string is the sequence of its characters.  An empty cell of the catalog
\* is read by pandas as NaN.
NaN == <<"NaN">>

\* Values of the 'Video Codec' column (ffprobe's codec_name).
CodecCells ==
    { <<"p", "r", "o", "r", "e", "s">>,
      <<"P", "r", "o", "R", "e", "s">>,
      <<"x", "p", "r", "o", "r", "e", "s", "4">>,
      <<"p", "r", "o", "r", "e">>,
      <<"p", "r", "o", "_", "r", "e", "s">>,
      <<"h", "2", "6", "4">>,
      <<"d", "v", "v", "i", "d", "e", "o">>,
      <<"D", "V", "V", "I", "D", "E", "O">>,
      <<"m", "p", "e", "g", "2", "v", "i", "d", "e", "o">>,
      <<"m", "p", "e", "g", "4">>,
      <<>>,
      NaN }

\* Values of the 'Field Order' column (ffprobe's field_order, 'unknown' when
\* the stream has none).
FieldOrderCells ==
    { <<"p", "r", "o", "g", "r", "e", "s", "s", "i", "v", "e">>,
      <<"t", "t">>,
      <<"b", "b">>,
      <<"t", "b">>,
      <<"b", "t">>,
      <<"T", "T">>,
      <<"i", "n", "t", "e", "r", "l", "a", "c", "e", "d">>,
      <<"u", "n", "k", "n", "o", "w", "n">>,
      NaN }

\* str(value): the text of a cell.
str(v) == IF v = NaN THEN <<"n", "a", "n">> ELSE v

UpperCase ==
    ("A" :> "a") @@ ("B" :> "b") @@ ("C" :> "c") @@ ("D" :> "d") @@
    ("E" :> "e") @@ ("F" :> "f") @@ ("G" :> "g") @@ ("H" :> "h") @@
    ("I" :> "i") @@ ("J" :> "j") @@ ("K" :> "k") @@ ("L" :> "l") @@
    ("M" :> "m") @@ ("N" :> "n") @@ ("O" :> "o") @@ ("P" :> "p") @@
    ("Q" :> "q") @@ ("R" :> "r") @@ ("S" :> "s") @@ ("T" :> "t") @@
    ("U" :> "u") @@ ("V" :> "v") @@ ("W" :> "w") @@ ("X" :> "x") @@
    ("Y" :> "y") @@ ("Z" :> "z")

\* s.lower()
lower(s) ==
    [i \in DOMAIN s |-> IF s[i] \in DOMAIN UpperCase THEN UpperCase[s[i]] ELSE s[i]]

\* `needle in s`
contains(needle, s) ==
    \E i \in 0..(Len(s) - Len(needle)) :
       \A j \in 1..Len(needle) : s[i + j] = needle[j]

\* separator.join(items), as the sequence of its pieces
RECURSIVE join(_, _)
join(items, sep) ==
    IF items = <<>> THEN <<>>
    ELSE IF Len(items) = 1 THEN <<items[1]>>
    ELSE <<items[1], sep>> \o join(Tail(items), sep)

\* Lines 110-116
metadata_flags ==
    << "-metadata", "copyright=COPYRIGHT_HOLDER",
       "-metadata", "artist=PROJECT_NAME",
       "-metadata", "comment=DESCRIPTION",
       "-map_metadata", "0" >>

\* Variant: the codec has to be exactly 'prores'.
is_mezzanine_exact(c) == c = <<"p", "r", "o", "r", "e", "s">>

\* Line 124: 'prores' in codec
is_mezzanine(c) == contains(<<"p", "r", "o", "r", "e", "s">>, c)

\* Lines 124-139: cmd_archive
archive_command(c) ==
    IF is_mezzanine(c)
    THEN << "ffmpeg", "-n", "-i", "input_path",
            "-c", "copy",
            "-map", "0" >> \o metadata_flags \o <<"archive_out">>
    ELSE << "ffmpeg", "-n", "-i", "input_path",
            "-c:v", "prores_ks", "-profile:v", "2", "-vendor", "apl0",
            "-bits_per_mb", "8000", "-pix_fmt", "yuv422p10le",
            "-c:a", "pcm_s16le", "-ar", "48000",
            "-map", "0" >> \o metadata_flags \o <<"archive_out">>

\* Lines 156-161: is_interlaced
interlaced(c, f) ==
    IF contains(<<"d", "v", "v", "i", "d", "e", "o">>, c)
       \/ contains(<<"m", "p", "e", "g", "2", "v", "i", "d", "e", "o">>, c)
    THEN TRUE
    ELSE \/ contains(<<"i", "n", "t", "e", "r", "l", "a", "c", "e", "d">>, f)
         \/ contains(<<"b", "b">>, f)
         \/ contains(<<"t", "t">>, f)

\* Lines 155, 163-164: vf_filters, with "yadif" inserted at position 0
filters(il) ==
    LET chain == <<"format=yuv420p">>
    IN  IF il THEN <<"yadif">> \o chain ELSE chain

\* Lines 166-174: cmd_sharing; the argument after -vf is ",".join(vf_filters)
sharing_command(vf) ==
    << "ffmpeg", "-n", "-i", "input_path",
       "-c:v", "libx264", "-crf", "23", "-preset", "slow",
       "-vf", join(vf, ","),
       "-c:a", "aac", "-b:a", "192k", "-ar", "48000",
       "-movflags", "+faststart",
       "-map", "0:v", "-map", "0:a" >> \o metadata_flags \o <<"sharing_out">>

\* A row whose source exists and whose outputs are missing is about to have
\* its commands built.
PlanInit ==
    /\ mode \in Modes
    /\ PipelineIdle
    /\ StampIdle
    /\ planpc = "read"
    /\ row_in \in [codec : CodecCells, field : FieldOrderCells]
    /\ codec = <<>>
    /\ field_order = <<>>
    /\ cmd_archive = <<>>
    /\ is_interlaced = FALSE
    /\ vf_filters = <<>>
    /\ cmd_sharing = <<>>

\* Lines 105-106
ReadRow ==
    /\ planpc = "read"
    /\ codec' = lower(str(row_in.codec))
    /\ field_order' = lower(str(row_in.field))
    /\ planpc' = "master"
    /\ UNCHANGED <<row_in, cmd_archive, is_interlaced, vf_filters, cmd_sharing>>
    /\ UNCHANGED <<pipeVars, stampVars>>

\* Lines 118-139: the Master command, when the mode enables the Master.
BuildArchive ==
    /\ planpc = "master"
    /\ cmd_archive' = IF MasterEnabled(mode) THEN archive_command(codec) ELSE <<>>
    /\ planpc' = "proxy"
    /\ UNCHANGED <<row_in, codec, field_order, is_interlaced, vf_filters,
                   cmd_sharing>>
    /\ UNCHANGED <<pipeVars, stampVars>>

\* Lines 149-174: the Proxy command, when the mode enables the Proxy.
BuildSharing ==
    /\ planpc = "proxy"
    /\ IF ProxyEnabled(mode)
       THEN /\ is_interlaced' = interlaced(codec, field_order)
            /\ vf_filters' = filters(is_interlaced')
            /\ cmd_sharing' = sharing_command(vf_filters')
       ELSE UNCHANGED <<is_interlaced, vf_filters, cmd_sharing>>
    /\ planpc' = "done"
    /\ UNCHANGED <<row_in, codec, field_order, cmd_archive>>
    /\ UNCHANGED <<pipeVars, stampVars>>

PlanNext == ReadRow \/ BuildArchive \/ BuildSharing

\* process_single_file building the commands for every kind of row.
SpecPlan == PlanInit /\ [][PlanNext]_vars

-----------------------------------------------------------------------------
(* add_copyright_stamp.py: needs_stamping and stamp_file *)

\* Line 10, as one word of a tag's text.
COPYRIGHT_HOLDER == <<"HOLDER">>

\* Texts of the copyright tag of a file, as sequences of words: no tag,
\* another holder, the holder, the holder among other words.
TagTexts == { <<>>, <<"other">>, <<"HOLDER">>, <<"c", "HOLDER", "2020">> }

\* stamp_file has been submitted for every file found; a temp_<filename>
\* may be left from an earlier execution.
StampInit ==
    /\ mode = 1
    /\ PipelineIdle
    /\ PlanIdle
    /\ spc = [f \in StampFiles |-> "probe"]
    /\ tag \in [StampFiles -> TagTexts]
    /\ temp \in [StampFiles -> {"absent", "stale"}]
    /\ original = [f \in StampFiles |-> "untouched"]
    /\ sres = [f \in StampFiles |-> "none"]
    /\ scalls = [f \in StampFiles |-> 0]
    /\ existing_copyright = [f \in StampFiles |-> <<"unread">>]

\* Lines 15-29 and 34-36: ffprobe prints the copyright tag and the file needs
\* stamping unless the holder is in it; when ffprobe cannot be run the bare
\* except answers True.  A file that needs no stamping is done.
NeedsStamping(f) ==
    /\ spc[f] = "probe"
    /\ \E ran \in BOOLEAN :
          LET needs == IF ran THEN ~contains(COPYRIGHT_HOLDER, tag[f]) ELSE TRUE
          IN  /\ existing_copyright' =
                    IF ran THEN [existing_copyright EXCEPT ![f] = tag[f]]
                           ELSE existing_copyright
              /\ spc' = [spc EXCEPT ![f] = IF needs THEN "run" ELSE "done"]
    /\ UNCHANGED <<tag, temp, original, sres, scalls>>
    /\ UNCHANGED <<pipeVars, planVars>>

\* Lines 55-57: subprocess.run(cmd, check=True) with ffmpeg -n writing
\* temp_<filename>.  The tool cannot be started: the exception is not a
\* CalledProcessError and leaves stamp_file.  The tool exits non-zero (always
\* so when temp_<filename> exists): CalledProcessError.  The tool exits zero
\* with the temporary copy written.
RunStamp(f) ==
    /\ spc[f] = "run"
    /\ scalls' = [scalls EXCEPT ![f] = @ + 1]
    /\ \/ /\ sres' = [sres EXCEPT ![f] = "nostart"]
          /\ spc' = [spc EXCEPT ![f] = "raised"]
          /\ UNCHANGED temp
       \/ /\ sres' = [sres EXCEPT ![f] = "nonzero"]
          /\ spc' = [spc EXCEPT ![f] = "except"]
          /\ \E t \in IF temp[f] = "absent" THEN {"absent", "partial"} ELSE {temp[f]} :
                temp' = [temp EXCEPT ![f] = t]
       \/ /\ temp[f] = "absent"
          /\ sres' = [sres EXCEPT ![f] = "zero"]
          /\ spc' = [spc EXCEPT ![f] = "replace"]
          /\ temp' = [temp EXCEPT ![f] = "written"]
    /\ UNCHANGED <<tag, original, existing_copyright>>
    /\ UNCHANGED <<pipeVars, planVars>>

\* Lines 60-61: os.replace(temp_path, filepath)
ReplaceOriginal(f) ==
    /\ spc[f] = "replace"
    /\ original' = [original EXCEPT ![f] = "replaced"]
    /\ tag' = [tag EXCEPT ![f] = COPYRIGHT_HOLDER]
    /\ temp' = [temp EXCEPT ![f] = "absent"]
    /\ spc' = [spc EXCEPT ![f] = "done"]
    /\ UNCHANGED <<sres, scalls, existing_copyright>>
    /\ UNCHANGED <<pipeVars, planVars>>

\* Lines 62-65: except subprocess.CalledProcessError
StampFailed(f) ==
    /\ spc[f] = "except"
    /\ temp' = [temp EXCEPT ![f] = "absent"]
    /\ spc' = [spc EXCEPT ![f] = "done"]
    /\ UNCHANGED <<tag, original, sres, scalls, existing_copyright>>
    /\ UNCHANGED <<pipeVars, planVars>>

StampNext ==
    \E f \in StampFiles :
       \/ NeedsStamping(f)
       \/ RunStamp(f)
       \/ ReplaceOriginal(f)
       \/ StampFailed(f)

\* stamp_file running for every file found.
SpecStamp == StampInit /\ [][StampNext]_vars

-----------------------------------------------------------------------------
(* Properties *)

Last(q) == q[Len(q)]

\* Worker w is at the existence check of derivative k.
AtCheck(w, k) == pc[w] = (IF k = "Master" THEN "m_check" ELSE "p_check")

\* The step is worker w returning from run_ffmpeg_safe.
Returns(w) ==
    /\ task[w] \in Kinds
    /\ taskState[w][task[w]] = "running"
    /\ taskState'[w][task[w]] \in {"ok", "failed"}

\* The step is worker w calling os.remove.
Removes(w) == pc[w] \in {"cleanup_remove", "empty_remove"} /\ pc'[w] # pc[w]

\* Worker w is writing to the console or to the log file.
Writing(w) == pc[w] \in {"log_write", "print"}

\* The external tool started by worker w is running.
InFlight(w) == pc[w] = "ff_running"

Total(c) ==
    Cardinality({ <<e, k>> \in Entries \X Kinds : c[e][k] > 0 })

\* No two rows of the catalog map to the same output path.
DistinctOutputs ==
    \A e1, e2 \in DOMAIN catalog :
       e1 # e2 => \A k \in Kinds : out_path(catalog[e1], k) # out_path(catalog[e2], k)

Terminal == {"SKIP", "COMPLETED"}

\* C1: when the output path of an enabled task exists at the check of
\* process_single_file, the step does not call run_ffmpeg_safe for it, and a
\* task skipped this way has no call in this execution.
C1_IdempotentSkip ==
    /\ [][\A w \in Workers, k \in Kinds :
            (AtCheck(w, k) /\ pc'[w] # pc[w] /\ exists(out_path(catalog[cur[w]], k)))
            => /\ pc'[w] # "spawn"
               /\ calls'[cur[w]][k] = calls[cur[w]][k]
               /\ taskState'[w][k] = "skip"]_vars
    /\ [](\A w \in Workers, k \in Kinds :
            taskState[w][k] = "skip" => calls[cur[w]][k] = 0)

\* A task invoked by the first execution is skipped by the second.
C1_Witness ==
    \E w \in Workers :
       /\ run = "second"
       /\ pc[w] = "print"
       /\ taskState[w][task[w]] = "skip"
       /\ firstCalls[cur[w]][task[w]] = 1
       /\ calls[cur[w]][task[w]] = 0

\* C2: run_ffmpeg_safe never deletes a finished, correctly-sized output: no
\* file it removes is a complete output (one another task already produced).
C2_NeverDeletesFinishedOutput ==
    [][\A w \in Workers :
          (Removes(w) /\ exists(output_file(w)))
          => fs[output_file(w)].st # "complete"]_vars

FailLog == <<"CRASH", "EXITCODE", "STDERR">>

C4_VerificationOutcome ==
    [][\A w \in Workers :
          /\ Returns(w)
             => /\ (taskState'[w][task[w]] = "ok")
                     <=> (rc[w] = "zero" /\ obs'[w] = "nonempty")
                /\ success'[w] <=> (taskState'[w][task[w]] = "ok")
                /\ (rc[w] = "zero" /\ obs'[w] = "empty")
                     => logged'[w] \in { <<"EMPTY", "DELETED_EMPTY">>,
                                         <<"EMPTY", "EXCEPTION">> }
                /\ (rc[w] = "zero" /\ obs'[w] = "missing")
                     => logged'[w] = <<"MISSING">>
          /\ (pc[w] = "empty_remove" /\ pc'[w] # pc[w])
             => fs'[output_file(w)].st = "absent"
          /\ (obs[w] = "missing" /\ pc'[w] # pc[w]) => fs' = fs]_vars

\* A zero-byte output after exit status 0 was removed and reported as failure.
C4_Witness ==
    \E w \in Workers :
       /\ rc[w] = "zero"
       /\ obs[w] = "empty"
       /\ taskState[w][task[w]] = "failed"
       /\ logged[w] = <<"EMPTY", "DELETED_EMPTY">>
       /\ ~exists(output_file(w))

\* Both executions check the same output path for every task.
SamePaths ==
    \A e \in Entries, k \in Kinds :
       paths[e][k] # <<>> => paths[e][k] = firstPaths[e][k]

C6_ExceptionContained ==
    /\ \A w \in Workers :
          /\ pc[w] # "raised"
          /\ (exc[w] /\ taskState[w][task[w]] # "running")
             => /\ taskState[w][task[w]] = "failed"
                /\ ~success[w]
                /\ logged[w] # <<>>
                /\ Last(logged[w]) = "EXCEPTION"
    /\ \A e \in Entries : results[e] # "EXCEPTION"
    /\ mainpc = "done" => \A e \in DOMAIN catalog : results[e] \in Terminal

\* The tool could not be started for the Master; the row went on to the end.
C6_Witness ==
    \E w \in Workers :
       /\ pc[w] = "end"
       /\ exc[w]
       /\ logged[w] = <<"EXCEPTION">>
       /\ taskState[w][task[w]] = "failed"

\* C7: a failed task stops nothing.  A row reaches the end of
\* process_single_file with its Proxy attempted whatever the Master did; the
\* cleanup of a Proxy touches no file under Masters; main() ends with every
\* row in a terminal state, and before that some step is always possible.
C7_FailureContained ==
    /\ [](\A w \in Workers :
            (pc[w] = "end" /\ ProxyEnabled(mode)) => taskState[w]["Proxy"] # "none")
    /\ [](mainpc = "done" => \A e \in DOMAIN catalog : results[e] \in Terminal)
    /\ [](mainpc = "done" \/ ENABLED Next)
    /\ [][\A w \in Workers :
            (Removes(w) /\ task[w] = "Proxy")
            => \A e \in DOMAIN catalog :
                  fs'[out_path(catalog[e], "Master")] = fs[out_path(catalog[e], "Master")]]_vars

\* The Master of a row failed, its Proxy is running, another row is finished.
C7_Witness ==
    \E w \in Workers :
       /\ taskState[w]["Master"] = "failed"
       /\ task[w] = "Proxy"
       /\ InFlight(w)
       /\ \E e \in DOMAIN catalog : e # cur[w] /\ results[e] = "COMPLETED"

\* C8: when the Proxy of a row begins, its Master (if enabled) is over:
\* skipped, succeeded, or failed with no file of that invocation left; no row
\* is with two workers, so its two invocations are never in flight together.
C8_MasterBeforeProxy ==
    /\ \A w \in Workers :
          (taskState[w]["Proxy"] # "none" /\ MasterEnabled(mode))
          => /\ taskState[w]["Master"] \in {"skip", "ok", "failed"}
             /\ taskState[w]["Master"] = "failed"
                => LET p == out_path(catalog[cur[w]], "Master")
                   IN  ~(exists(p) /\ fs[p].by = <<run, cur[w], "Master">>)
    /\ \A e \in DOMAIN catalog : Cardinality({ w \in Workers : cur[w] = e }) <= 1

\* The Proxy of a row is in flight after its Master succeeded.
C8_Witness ==
    \E w \in Workers :
       /\ taskState[w]["Master"] = "ok"
       /\ task[w] = "Proxy"
       /\ InFlight(w)

\* C9: never more than MAX_PARALLEL_TASKS invocations in flight, nor more
\* worker threads; rows are taken from the queue in catalog order.
C9_BoundedConcurrency ==
    /\ Cardinality({ w \in Workers : InFlight(w) }) <= MAX_PARALLEL_TASKS
    /\ threads <= MAX_PARALLEL_TASKS
    /\ \A i \in DOMAIN dispatched : dispatched[i] = i

\* The pool is full while a row waits in the queue.
C9_Witness ==
    /\ Cardinality({ w \in Workers : InFlight(w) }) = MAX_PARALLEL_TASKS
    /\ queue # <<>>

\* C10: every write to the console or the log file is made by the holder of
\* print_lock, so no two workers write at the same time.
C10_WritesUnderLock ==
    /\ \A w \in Workers : Writing(w) => print_lock = w
    /\ Cardinality({ w \in Workers : Writing(w) }) <= 1

\* The command copies the streams: -c copy.
StreamCopy(cmd) ==
    \E i \in 1..(Len(cmd) - 1) : cmd[i] = "-c" /\ cmd[i + 1] = "copy"

\* The command re-encodes the video to the intermediate codec.
Transcodes(cmd) ==
    \E i \in 1..(Len(cmd) - 1) : cmd[i] = "-c:v" /\ cmd[i + 1] = "prores_ks"

\* The argument of -vf in the Proxy command.
FilterChain == cmd_sharing[12]

\* C11: when the codec cell, lowercased, contains 'prores', the Master command
\* uses stream copy and does not transcode; for every other cell (empty and
\* unknown ones too) it transcodes and does not use stream copy.
C11_MasterStrategy ==
    (planpc \in {"proxy", "done"} /\ MasterEnabled(mode))
    => IF contains(<<"p", "r", "o", "r", "e", "s">>, lower(str(row_in.codec)))
       THEN StreamCopy(cmd_archive) /\ ~Transcodes(cmd_archive)
       ELSE Transcodes(cmd_archive) /\ ~StreamCopy(cmd_archive)

\* A mixed-case ProRes codec gave a stream-copy Master command.
C11_Witness ==
    /\ planpc = "done"
    /\ row_in.codec = <<"P", "r", "o", "R", "e", "s">>
    /\ StreamCopy(cmd_archive)

\* Field orders of an interlaced stream: top or bottom field first, coded
\* and displayed (tt, bb, tb, bt).
FieldOrderMarkers == { <<"t", "t">>, <<"b", "b">>, <<"t", "b">>, <<"b", "t">> }

\* The row is of a known interlaced codec family, or its field order
\* indicates a non-progressive scan.
NonProgressive(r) ==
    \/ contains(<<"d", "v", "v", "i", "d", "e", "o">>, lower(str(r.codec)))
    \/ contains(<<"m", "p", "e", "g", "2", "v", "i", "d", "e", "o">>, lower(str(r.codec)))
    \/ contains(<<"i", "n", "t", "e", "r", "l", "a", "c", "e", "d">>, lower(str(r.field)))
    \/ \E m \in FieldOrderMarkers : contains(m, lower(str(r.field)))

\* C12: for every row of an interlaced codec family or with a non-progressive
\* field order, the filter chain of the Proxy command has the deinterlace
\* filter before the pixel-format filter; for every other row the chain is
\* the pixel-format filter alone.
C12_DeinterlaceDecision ==
    (planpc = "done" /\ ProxyEnabled(mode))
    => FilterChain = IF NonProgressive(row_in)
                     THEN <<"yadif", ",", "format=yuv420p">>
                     ELSE <<"format=yuv420p">>

\* How often line t is among the lines a worker printed.
Count(t, lines) == Cardinality({ i \in DOMAIN lines : lines[i] = t })

\* C13: a worker prints "[DONE] Master" ("[DONE] Proxy") for its row only
\* when run_ffmpeg_safe returned success for that task, and at most once.
C13_DoneOnlyOnSuccess ==
    \A w \in Workers :
       /\ Count("[DONE] Master", printed[w]) <= 1
       /\ Count("[DONE] Master", printed[w]) > 0 => taskState[w]["Master"] = "ok"
       /\ Count("[DONE] Proxy", printed[w]) <= 1
       /\ Count("[DONE] Proxy", printed[w]) > 0 => taskState[w]["Proxy"] = "ok"

\* Every invocation of the run after the interruption produced its output.
FaultFreeRerun ==
    \A e \in DOMAIN catalog, k \in Kinds :
       calls[e][k] > 0
       => fs[out_path(catalog[e], k)] = [st |-> "complete", by |-> <<"resumed", e, k>>]

\* C14: after an interrupted run and a fault-free run over the same catalog,
\* every enabled output of every row with an existing source is a complete
\* file: nothing the interrupted run left unfinished stands in as an output.
C14_ResumeCompletesOutputs ==
    (run = "resumed" /\ mainpc = "done" /\ FaultFreeRerun)
    => \A e \in DOMAIN catalog, k \in enabled_kinds(mode) :
          input_path(catalog[e]) \in sources
          => fs[out_path(catalog[e], k)].st = "complete"

\* C15: an exception raised in process_single_file outside run_ffmpeg_safe
\* is caught and logged: when it ends the processing of a row, a record of
\* it has been written through log_error; and it stops nothing: main() ends
\* with every row processed.
C15_FaultCaughtAndLogged ==
    /\ [][\A w \in Workers :
            (pc[w] = "raised" /\ pc'[w] = "idle")
            => (logged[w] # <<>> /\ Last(logged[w]) = "EXCEPTION")]_vars
    /\ [](mainpc = "done" => \A e \in DOMAIN catalog : results[e] # "pending")

\* The state of a catalog entry in the state machine of the orchestrator.
EntryState(e) ==
    CASE results[e] = "SKIP" -> "Skipped"
      [] results[e] = "COMPLETED" -> "Completed"
      [] results[e] = "EXCEPTION" -> "Faulted"
      [] OTHER ->
           IF \E w \in Workers : cur[w] = e /\ pc[w] = "raised" THEN "Faulted"
           ELSE IF \E w \in Workers : cur[w] = e /\ pc[w] # "start" THEN "Planned"
           ELSE "Pending"

\* The moves of the state machine (a Planned entry stays Planned while its
\* tasks succeed or fail).
EntryMoves ==
    { <<"Pending", "Skipped">>, <<"Pending", "Planned">>,
      <<"Planned", "Completed">> }

\* C16 (states): every entry moves only along Pending -> Skipped or
\* Pending -> Planned -> Completed, and when main() returns every entry is
\* Skipped or Completed.
C16_EntryStateMachine ==
    [][\A e \in DOMAIN catalog :
          /\ EntryState(e)' # EntryState(e)
             => <<EntryState(e), EntryState(e)'>> \in EntryMoves
          /\ mainpc' = "done" => EntryState(e)' \in {"Skipped", "Completed"}]_vars

\* C17: every row is taken from the queue once, the tool is invoked at most
\* once for a row and derivative in one execution, and a task that failed
\* leaves no file at its output path when run_ffmpeg_safe returns (so that
\* the next execution invokes the tool for it again).
C17_NoRetryFailedLeftForNextRun ==
    [][/\ \A i, j \in DOMAIN dispatched' :
             i # j => dispatched'[i] # dispatched'[j]
       /\ \A e \in Entries, k \in Kinds : calls'[e][k] <= 1
       /\ \A w \in Workers :
             (Returns(w) /\ taskState'[w][task[w]] = "failed")
             => fs'[output_file(w)].st = "absent"]_vars

\* The step is worker w leaving the source check of a row whose source is
\* missing.
SkipsMissingSource(w) ==
    /\ pc[w] = "start"
    /\ pc'[w] # "start"
    /\ input_path(catalog[cur[w]]) \notin sources

\* C18: a row whose source is missing is skipped: no invocation, no folder
\* created, no file touched, the row's result is the skip, and the skip is
\* written to the console or the log.
C18_MissingSourceSkipLogged ==
    [][\A w \in Workers :
          SkipsMissingSource(w)
          => /\ calls' = calls
             /\ dirs' = dirs
             /\ fs' = fs
             /\ results'[cur[w]] = "SKIP"
             /\ \/ pc'[w] \in {"print", "log"}
                \/ printed'[w] # printed[w]
                \/ logged'[w] # logged[w]]_vars

\* The modes in which a derivative is produced.
ModesOf(k) == IF k = "Master" THEN {1, 3} ELSE {2, 3}

\* C19: a Master task (output <dir>/Masters/<base>_Master.mov) is planned only
\* in modes 1 and 3, a Proxy task (output <dir>/Proxies/<base>_Share.mp4) only
\* in modes 2 and 3, and a row that reaches the end of process_single_file
\* had exactly the enabled tasks planned; no folder is created and no
\* invocation is issued for a derivative the mode does not enable.
C19_ModeGating ==
    /\ \A e \in DOMAIN catalog, k \in Kinds :
          /\ (paths[e][k] # <<>> \/ calls[e][k] > 0) => mode \in ModesOf(k)
          /\ paths[e][k] # <<>>
             => paths[e][k] =
                  IF k = "Master"
                  THEN <<<<catalog[e].dir, "Masters">>, catalog[e].base, "_Master", ".mov">>
                  ELSE <<<<catalog[e].dir, "Proxies">>, catalog[e].base, "_Share", ".mp4">>
    /\ \A w \in Workers, k \in Kinds :
          /\ taskState[w][k] # "none" => mode \in ModesOf(k)
          /\ pc[w] = "end" => (taskState[w][k] # "none" <=> mode \in ModesOf(k))
    /\ \A d \in dirs :
          /\ d[2] = "Masters" => mode \in ModesOf("Master")
          /\ d[2] = "Proxies" => mode \in ModesOf("Proxy")
    /\ \A p \in OutPaths :
          (fs[p].st # "absent" /\ fs[p].by # <<"earlier">>)
          => mode \in ModesOf(fs[p].by[3])

\* In mode 1 a row is finished with its Master built, no Proxy planned and
\* only the Masters folder created.
C19_Witness ==
    /\ mode = 1
    /\ dirs = { <<"d", "Masters">> }
    /\ \E w \in Workers :
          /\ pc[w] = "end"
          /\ taskState[w] = [Master |-> "ok", Proxy |-> "none"]
          /\ calls[cur[w]] = [Master |-> 1, Proxy |-> 0]

\* C20: for every file given to stamp_file: when needs_stamping read the
\* holder in the file's tag, no stamping invocation is issued and the file is
\* untouched; when the stamping invocation failed (non-zero exit, or the tool
\* could not be started), the original is untouched, no exception leaves
\* stamp_file and no temp_<filename> is left when it returns; the original is
\* replaced only after an invocation that succeeded.
C20_StampAllOrNothing ==
    \A f \in StampFiles :
       /\ contains(COPYRIGHT_HOLDER, existing_copyright[f])
          => (scalls[f] = 0 /\ original[f] = "untouched")
       /\ sres[f] \in {"nonzero", "nostart"}
          => /\ original[f] = "untouched"
             /\ spc[f] # "raised"
             /\ spc[f] = "done" => temp[f] = "absent"
       /\ original[f] = "replaced" => sres[f] = "zero"

=============================================================================
